---- MODULE Spec2Model ----
(***************************************************************************)
(* Black-Hole-Simulation: the two tools of the repository.                 *)
(*                                                                         *)
(*   vizualizacija.py  - main(): trajectory file -> standalone HTML viewer *)
(*                       (SpecMain), and the player script embedded in the *)
(*                       HTML template (SpecViewer).                       *)
(*   pygameSkripta.py  - the pygame frame loop (SpecAnim, SpecAnimFair).   *)
(*                                                                         *)
(* Floating point values are modelled as exact rationals extended with     *)
(* inf, -inf and nan (IEEE rounding is abstracted away).  Samples of the   *)
(* trajectory are referred to by their index into D.x / D.y / D.z.         *)
(***************************************************************************)
EXTENDS Integers, Sequences, FiniteSets, TLC

VARIABLES
    \* ---- the generated viewer (HTML_TEMPLATE script) ----
    D,              \* the embedded payload: [N, show_horizon]
    traces,         \* the plot: trace index -> [name, pts, visible]
    slider,         \* slider.value        (range input 0..Nmax)
    tailInput,      \* tailInput.value     (range input 0..Nmax)
    horizonToggle,  \* horizonToggle.checked
    playBtn,        \* playBtn.textContent
    timer,          \* let timer
    intervals,      \* interval ids the browser currently has scheduled
    nextTimer,      \* id the next setInterval call returns
    event,          \* the handler that ran last
    \* ---- main() of vizualizacija.py ----
    args,           \* parsed command line
    infile,         \* the file at --input
    writable,       \* whether --output can be written
    mpc,            \* position in main()
    loc,            \* locals of main(): file_format, N, x, y, z, lim, rs, show_horizon
    exitCode,       \* process exit status
    stderr,         \* what was written to stderr
    stdout,         \* what was printed
    html,           \* the written document (template fields)
    \* ---- pygameSkripta.py ----
    L,              \* len(x) = len(y)
    t,              \* frame counter
    apc,            \* position in the script
    iter,           \* number of loop iterations entered
    drawn,          \* sample indices drawn so far
    quitPending     \* a QUIT event is in the pygame event queue

viewerVars == <<D, traces, slider, tailInput, horizonToggle, playBtn, timer,
                intervals, nextTimer, event>>
mainVars   == <<args, infile, writable, mpc, loc, exitCode, stderr, stdout, html>>
animVars   == <<L, t, apc, iter, drawn, quitPending>>
vars       == <<viewerVars, mainVars, animVars>>

Max(a, b) == IF a >= b THEN a ELSE b
Min(a, b) == IF a <= b THEN a ELSE b

(***************************************************************************)
(* Bounds of the model.                                                    *)
(***************************************************************************)
MaxN      == 4     \* samples in a viewed trajectory: 2..MaxN
MaxTimers == 3     \* setInterval calls in one viewer session
MaxRows   == 3     \* rows of an input file: 0..MaxRows
MaxMag    == 2     \* finite CLI floats and radii: -MaxMag..MaxMag
MaxTail   == 6     \* --tail requests: -MaxTail..MaxTail (and -5, N+100)
MaxLen    == 2500  \* length of the pickled arrays: 0..MaxLen

null == -1         \* JavaScript null / Python None for integer-valued slots

(***************************************************************************)
(* The viewer: HTML_TEMPLATE <script>                                      *)
(***************************************************************************)
\* traces.push(...) order: Path, [Event horizon], Recent segment, Particle
horizonIndex  == IF D.show_horizon THEN 1 ELSE null
tailIndex     == IF D.show_horizon THEN 2 ELSE 1
particleIndex == IF D.show_horizon THEN 3 ELSE 2

\* Array.prototype.slice(start, end) on an array of length len, as the
\* sequence of the indices it keeps (negative arguments count from the end)
SliceBound(k, len) == IF k < 0 THEN Max(len + k, 0) ELSE Min(k, len)
Slice(start, end, len) ==
    LET a == SliceBound(start, len)
        b == SliceBound(end, len)
    IN  [p \in 1..Max(b - a, 0) |-> a + p - 1]

\* the traces array handed to Plotly.newPlot
InitialTraces(n, show) ==
    LET path     == [name |-> "Path", pts |-> Slice(0, n, n), visible |-> "true"]
        horizon  == [name |-> "Event horizon", pts |-> <<>>, visible |-> "true"]
        recent   == [name |-> "Recent segment", pts |-> <<0>>, visible |-> "true"]
        particle == [name |-> "Particle", pts |-> <<0>>, visible |-> "true"]
    IN  IF show
        THEN [k \in 0..3 |-> CASE k = 0 -> path [] k = 1 -> horizon
                               [] k = 2 -> recent [] OTHER -> particle]
        ELSE [k \in 0..2 |-> CASE k = 0 -> path [] k = 1 -> recent
                               [] OTHER -> particle]

\* a range input keeps its value inside [min, max] = [0, Nmax]
RangeValue(v) == Max(0, Min(D.N - 1, v))

\* i = Math.max(0, Math.min(D.N-1, i|0))
ClampIndex(i) == Max(0, Min(D.N - 1, i))

TailStartNoFloor(i, tailLen) == i - tailLen
\* const j0 = Math.max(0, i - tailLen)
TailStart(i, tailLen) == Max(0, i - tailLen)

\* setIndex(i) on the plot tr: the two Plotly.restyle calls
Restyle(tr, i0, tailLen) ==
    LET i  == ClampIndex(i0)
        j0 == TailStart(i, tailLen)
    IN  [tr EXCEPT ![tailIndex].pts     = Slice(j0, i + 1, D.N),
                   ![particleIndex].pts = <<i>>]
SetIndex(i0, tailLen) == Restyle(traces, i0, tailLen)

NextIndexNoWrap(v) == 1 + v
\* let i = (1 + parseInt(slider.value)) % D.N
NextIndex(v) == (1 + v) % D.N

ViewerIdleMain ==
    /\ args = <<>> /\ infile = <<>> /\ writable = FALSE /\ mpc = "idle"
    /\ loc = <<>> /\ exitCode = null /\ stderr = "" /\ stdout = "" /\ html = <<>>
ViewerIdleAnim ==
    /\ L = 0 /\ t = 0 /\ apc = "idle" /\ iter = 0 /\ drawn = {} /\ quitPending = FALSE

\* the document as loaded: the template's fields are those main() emits
\* (N >= 2, tail in 0..N-1, checkbox checked iff show_horizon), then
\* Plotly.newPlot and the closing setIndex(0)
InitViewer ==
    /\ \E n \in 2..MaxN, show \in BOOLEAN :
          /\ D = [N |-> n, show_horizon |-> show]
          /\ horizonToggle = show
          /\ \E tl \in 0..(n - 1) :
                /\ tailInput = tl
                /\ traces = Restyle(InitialTraces(n, show), 0, tl)
    /\ slider = 0
    /\ playBtn = "Play"
    /\ timer = null
    /\ intervals = {}
    /\ nextTimer = 1
    /\ event = "load"
    /\ ViewerIdleMain
    /\ ViewerIdleAnim

\* slider.addEventListener('input', e => setIndex(e.target.value))
SliderInput ==
    /\ \E v \in 0..(D.N - 1) :
          /\ v # slider
          /\ slider' = v
          /\ traces' = SetIndex(v, tailInput)
    /\ event' = "scrub"
    /\ UNCHANGED <<D, tailInput, horizonToggle, playBtn, timer, intervals, nextTimer>>
    /\ UNCHANGED <<mainVars, animVars>>

TailInputNoRedraw ==
    /\ \E len \in 0..(D.N - 1) :
          /\ len # tailInput
          /\ tailInput' = len
    /\ event' = "tail"
    /\ UNCHANGED <<D, traces, slider, horizonToggle, playBtn, timer, intervals, nextTimer>>
    /\ UNCHANGED <<mainVars, animVars>>
\* tailInput.addEventListener('input', e => setIndex(slider.value))
TailInput ==
    /\ \E len \in 0..(D.N - 1) :
          /\ len # tailInput
          /\ tailInput' = len
          /\ traces' = SetIndex(slider, len)
    /\ event' = "tail"
    /\ UNCHANGED <<D, slider, horizonToggle, playBtn, timer, intervals, nextTimer>>
    /\ UNCHANGED <<mainVars, animVars>>

HorizonChangeWrongTrace ==
    /\ horizonToggle' = ~horizonToggle
    /\ traces' = [traces EXCEPT ![tailIndex].visible =
                      IF horizonToggle' THEN "true" ELSE "legendonly"]
    /\ event' = "horizon"
    /\ UNCHANGED <<D, slider, tailInput, playBtn, timer, intervals, nextTimer>>
    /\ UNCHANGED <<mainVars, animVars>>
\* horizonToggle.addEventListener('change', ...)
HorizonChange ==
    /\ horizonToggle' = ~horizonToggle
    /\ IF horizonIndex # null
       THEN traces' = [traces EXCEPT ![horizonIndex].visible =
                          IF horizonToggle' THEN "true" ELSE "legendonly"]
       ELSE UNCHANGED traces
    /\ event' = "horizon"
    /\ UNCHANGED <<D, slider, tailInput, playBtn, timer, intervals, nextTimer>>
    /\ UNCHANGED <<mainVars, animVars>>

PlayClickLeak ==
    /\ IF timer # null
       THEN /\ timer' = null
            /\ playBtn' = "Play"
            /\ event' = "pause"
            /\ UNCHANGED <<intervals, nextTimer>>
       ELSE /\ nextTimer <= MaxTimers
            /\ playBtn' = "Pause"
            /\ timer' = nextTimer
            /\ intervals' = intervals \cup {nextTimer}
            /\ nextTimer' = nextTimer + 1
            /\ event' = "play"
    /\ UNCHANGED <<D, traces, slider, tailInput, horizonToggle>>
    /\ UNCHANGED <<mainVars, animVars>>
\* playBtn.addEventListener('click', ...)
PlayClick ==
    /\ IF timer # null
       THEN /\ intervals' = intervals \ {timer}      \* clearInterval(timer)
            /\ timer' = null
            /\ playBtn' = "Play"
            /\ event' = "pause"
            /\ UNCHANGED nextTimer
       ELSE /\ nextTimer <= MaxTimers
            /\ playBtn' = "Pause"
            /\ timer' = nextTimer                    \* setInterval(..., 20)
            /\ intervals' = intervals \cup {nextTimer}
            /\ nextTimer' = nextTimer + 1
            /\ event' = "play"
    /\ UNCHANGED <<D, traces, slider, tailInput, horizonToggle>>
    /\ UNCHANGED <<mainVars, animVars>>

\* the setInterval callback, run by the browser for a scheduled interval
Tick ==
    /\ \E id \in intervals :
          LET i == NextIndex(slider)
          IN  /\ slider' = RangeValue(i)
              /\ traces' = SetIndex(i, tailInput)
    /\ event' = "tick"
    /\ UNCHANGED <<D, tailInput, horizonToggle, playBtn, timer, intervals, nextTimer>>
    /\ UNCHANGED <<mainVars, animVars>>

NextViewer ==
    \/ SliderInput
    \/ TailInput
    \/ HorizonChange
    \/ PlayClick
    \/ Tick

SpecViewer == InitViewer /\ [][NextViewer]_vars

(***************************************************************************)
(* Claims about the viewer                                                 *)
(***************************************************************************)
\* what the plot shows
recentPts   == traces[tailIndex].pts
particlePts == traces[particleIndex].pts
Playing     == timer # null
\* the samples lo, lo+1, .., hi in order
SamplesFromTo(lo, hi) == [p \in 1..(hi - lo + 1) |-> lo + p - 1]

\* C1: the player starts Paused at index 0; play/pause pressed while Paused
\* starts playing; while Playing every tick shows (index + 1) mod N, drawing
\* the samples max(0, i - tail)..i with the marker on sample i.
C1_PlayThenTickAdvances ==
    /\ (~Playing /\ slider = 0 /\ particlePts = <<0>>)
    /\ [][(~Playing /\ event' \in {"play", "pause"}) => Playing']_vars
    /\ [][(Playing /\ event' = "tick") =>
            LET i == (particlePts[1] + 1) % D.N
            IN  /\ slider' = i
                /\ particlePts' = <<i>>
                /\ recentPts' = SamplesFromTo(Max(0, i - tailInput), i)
                /\ (particlePts[1] = D.N - 1 => particlePts' = <<0>>)]_vars
C1_Witness ==
    /\ event = "tick" /\ Playing /\ particlePts = <<0>> /\ slider = 0
    /\ tailInput >= 1

\* C2: play/pause pressed while Playing pauses, stops the ticking and keeps
\* the index; the scheduled intervals are exactly {timer} while Playing and
\* none while Paused, so no tick runs while Paused.
C2_PauseStopsTicking ==
    /\ [](intervals = (IF Playing THEN {timer} ELSE {}))
    /\ [](Playing <=> playBtn = "Pause")
    /\ [][(Playing /\ event' \in {"play", "pause"}) =>
            /\ ~Playing'
            /\ intervals' = {}
            /\ UNCHANGED <<slider, traces>>]_vars
    /\ [][~Playing => event' # "tick"]_vars
C2_Witness ==
    /\ event = "pause" /\ ~Playing /\ nextTimer > 2
    /\ particlePts[1] > 0 /\ intervals = {}

\* C3: a scrub to i (Paused or Playing) draws the samples
\* max(0, i - tail)..i, puts the marker on sample i and keeps the playback
\* state; the index and the drawn segment always lie in 0..N-1.
C3_ScrubRedraws ==
    /\ [](/\ slider \in 0..(D.N - 1)
          /\ particlePts = <<slider>>
          /\ Len(recentPts) >= 1
          /\ \A p \in 1..Len(recentPts) : recentPts[p] \in 0..(D.N - 1))
    /\ [][event' = "scrub" =>
            /\ particlePts' = <<slider'>>
            /\ recentPts' = SamplesFromTo(Max(0, slider' - tailInput), slider')
            /\ UNCHANGED <<timer, intervals, playBtn, tailInput>>]_vars
C3_Witness ==
    /\ event = "scrub" /\ Playing /\ slider = D.N - 1 /\ tailInput = 1
    /\ recentPts = <<D.N - 2, D.N - 1>>

\* C4 as stated: changing the tail length redraws nothing and keeps the
\* index and the playback state.
C4_TailChangeDrawsNothing ==
    [][event' = "tail" =>
          UNCHANGED <<traces, slider, timer, intervals, playBtn>>]_vars
\* C4 amended: changing the tail length to len at once redraws the recent
\* segment as the samples max(0, i - len)..i; the marker stays on sample i,
\* and the index and the playback state are unchanged.
C4_TailChangeRedrawsSegment ==
    [][event' = "tail" =>
          /\ recentPts' = SamplesFromTo(Max(0, slider - tailInput'), slider)
          /\ particlePts' = particlePts
          /\ \A k \in DOMAIN traces : k # tailIndex => traces'[k] = traces[k]
          /\ UNCHANGED <<slider, timer, intervals, playBtn>>]_vars
C4_Witness ==
    /\ event = "tail" /\ slider >= 2 /\ tailInput = 1
    /\ recentPts = <<slider - 1, slider>>

\* C5: toggling the horizon checkbox changes nothing but the visibility of
\* the horizon mesh; without a mesh it changes nothing of the plot or player.
C5_HorizonToggleFrame ==
    [][event' = "horizon" =>
          /\ UNCHANGED <<D, slider, tailInput, playBtn, timer, intervals, nextTimer>>
          /\ DOMAIN traces' = DOMAIN traces
          /\ \A k \in DOMAIN traces :
                /\ traces'[k].name = traces[k].name
                /\ traces'[k].pts = traces[k].pts
                /\ (k # horizonIndex => traces'[k] = traces[k])
          /\ (~D.show_horizon => traces' = traces)
          /\ (D.show_horizon =>
                 traces'[horizonIndex].visible =
                     (IF horizonToggle' THEN "true" ELSE "legendonly"))]_vars
C5_Witness ==
    /\ event = "horizon" /\ D.show_horizon /\ Playing /\ slider > 0
    /\ ~horizonToggle /\ traces[horizonIndex].visible = "legendonly"

(***************************************************************************)
(* Floating point values: exact rationals n/d (d > 0), inf, -inf, nan; and *)
(* None for an absent optional.                                            *)
(***************************************************************************)
Fin(n, d) == [k |-> "fin", n |-> n, d |-> d]
Num(n)    == Fin(n, 1)
Inf(sg)   == [k |-> "inf", n |-> sg, d |-> 1]
NaN       == [k |-> "nan", n |-> 0, d |-> 1]
None      == [k |-> "none", n |-> 0, d |-> 1]

Sgn(i)    == IF i > 0 THEN 1 ELSE IF i < 0 THEN -1 ELSE 0
AbsInt(i) == IF i < 0 THEN -i ELSE i
FSign(a)  == Sgn(a.n)
IsNaN(a)  == a.k = "nan"
\* np.isfinite
IsFinite(a) == a.k = "fin"
IsZero(a)   == a.k = "fin" /\ a.n = 0

\* a * b
FMul(a, b) ==
    IF IsNaN(a) \/ IsNaN(b) THEN NaN
    ELSE IF a.k = "inf" \/ b.k = "inf"
         THEN (IF FSign(a) * FSign(b) = 0 THEN NaN ELSE Inf(FSign(a) * FSign(b)))
         ELSE Fin(a.n * b.n, a.d * b.d)
\* a / b for b # 0 (Python raises ZeroDivisionError for b = 0 before this)
FDiv(a, b) ==
    IF IsNaN(a) \/ IsNaN(b) THEN NaN
    ELSE IF a.k = "inf"
         THEN (IF b.k = "inf" THEN NaN ELSE Inf(FSign(a) * FSign(b)))
         ELSE IF b.k = "inf" THEN Num(0)
              ELSE Fin(a.n * b.d * Sgn(b.n), a.d * AbsInt(b.n))
\* np.abs
FAbs(a) == IF a.k = "nan" THEN NaN ELSE [a EXCEPT !.n = AbsInt(a.n)]
\* a < b, a <= b, a = b (every comparison with nan is false)
FLt(a, b) ==
    /\ ~IsNaN(a) /\ ~IsNaN(b)
    /\ IF a.k = "inf" THEN a.n < 0 /\ ~(b.k = "inf" /\ b.n < 0)
       ELSE IF b.k = "inf" THEN b.n > 0
            ELSE a.n * b.d < b.n * a.d
FEq(a, b) ==
    /\ ~IsNaN(a) /\ ~IsNaN(b)
    /\ IF a.k = "inf" \/ b.k = "inf" THEN a.k = b.k /\ a.n = b.n
       ELSE a.n * b.d = b.n * a.d
FLe(a, b) == FLt(a, b) \/ FEq(a, b)
\* rs > 0
FGt0(a) == FLt(Num(0), a)

\* np.max of a non-empty sequence: nan if any element is nan
NpMax(vs) ==
    IF \E p \in 1..Len(vs) : IsNaN(vs[p]) THEN NaN
    ELSE vs[CHOOSE p \in 1..Len(vs) : \A q \in 1..Len(vs) : FLe(vs[q], vs[p])]

(***************************************************************************)
(* vizualizacija.py: spherical_to_cartesian, load_trajectory, compute_rs   *)
(***************************************************************************)
\* an angle is given by its sine and cosine (np.sin, np.cos)
Angle(sn, cs) == [sin |-> sn, cos |-> cs]
Sin(a) == a.sin
Cos(a) == a.cos

\* x = r*sin(th)*cos(ph); y = r*sin(th)*sin(ph); z = r*cos(th), element-wise
spherical_to_cartesian(rows) ==
    [x |-> [p \in 1..Len(rows) |-> FMul(FMul(rows[p].r, Sin(rows[p].th)), Cos(rows[p].ph))],
     y |-> [p \in 1..Len(rows) |-> FMul(FMul(rows[p].r, Sin(rows[p].th)), Sin(rows[p].ph))],
     z |-> [p \in 1..Len(rows) |-> FMul(rows[p].r, Cos(rows[p].th))]]

\* np.load / np.loadtxt on the file's content: the array or an exception.
\* loadtxt returns a 1-D array for a table of fewer than two rows.
NpRead(content, file_format) ==
    IF file_format = "npy"
    THEN [raised |-> content.kind # "npy", ndim |-> content.ndim,
          cols |-> content.cols, rows |-> content.rows]
    ELSE [raised |-> content.kind # "csv",
          ndim |-> IF Len(content.rows) >= 2 THEN 2 ELSE 1,
          cols |-> content.cols, rows |-> content.rows]

\* load_trajectory: raises ValueError unless arr.ndim = 2 and shape[1] >= 4
load_trajectory(content, file_format) ==
    LET arr == NpRead(content, file_format)
    IN  [raised |-> arr.raised \/ arr.ndim # 2 \/ arr.cols < 4, rows |-> arr.rows]

InferFormatDefaultCsv(fmt, ext) ==
    IF fmt # "none" THEN fmt
    ELSE IF ext = ".npy" THEN "npy" ELSE "csv"
\* file_format = args.format, or inferred from the suffix
InferFormat(fmt, ext) ==
    IF fmt # "none" THEN fmt
    ELSE IF ext = ".npy" THEN "npy"
    ELSE IF ext = ".csv" THEN "csv"
    ELSE "unknown"

compute_rs_MassFirst(a) ==
    IF a.mass # None /\ a.G # None /\ a.c # None
    THEN IF IsZero(FMul(a.c, a.c))
         THEN [raised |-> TRUE, rs |-> None]
         ELSE [raised |-> FALSE,
               rs |-> FDiv(FMul(FMul(Num(2), a.G), a.mass), FMul(a.c, a.c))]
    ELSE [raised |-> FALSE, rs |-> a.rs]
\* compute_rs(args); 2.0 * G * mass / c**2 raises ZeroDivisionError for c = 0
compute_rs(a) ==
    IF a.rs # None THEN [raised |-> FALSE, rs |-> a.rs]
    ELSE IF a.mass # None /\ a.G # None /\ a.c # None
         THEN IF IsZero(FMul(a.c, a.c))
              THEN [raised |-> TRUE, rs |-> None]
              ELSE [raised |-> FALSE,
                    rs |-> FDiv(FMul(FMul(Num(2), a.G), a.mass), FMul(a.c, a.c))]
         ELSE [raised |-> FALSE, rs |-> None]

\* show_horizon = rs is not None and np.isfinite(rs) and rs > 0
ShowHorizon(rs) == rs # None /\ IsFinite(rs) /\ FGt0(rs)

AxisLimitNoAbs(x, y, z) ==
    LET rmax == NpMax(x \o y \o z)
    IN  IF IsFinite(rmax) /\ FGt0(rmax) THEN FMul(Fin(105, 100), rmax) ELSE Num(1)
\* rmax = np.max(np.abs([x, y, z])); lim = 1.05*rmax if finite and > 0 else 1.0
AxisLimit(x, y, z) ==
    LET all  == x \o y \o z
        rmax == NpMax([p \in 1..Len(all) |-> FAbs(all[p])])
    IN  IF IsFinite(rmax) /\ FGt0(rmax) THEN FMul(Fin(105, 100), rmax) ELSE Num(1)

TailClampNoFloor(tail, n) == Min(tail, n - 1)
\* tail=min(max(0, args.tail), N - 1)
TailClamp(tail, n) == Min(Max(0, tail), n - 1)

(***************************************************************************)
(* vizualizacija.py: main()                                                *)
(***************************************************************************)
Row(rv, th, ph) == [r |-> rv, th |-> th, ph |-> ph]
\* directions (theta, phi): the pole; an oblique one with negative x; and
\* theta = pi/2, phi = 3*pi/2
Directions ==
    { <<Angle(Num(0), Num(1)), Angle(Num(0), Num(1))>>,
      <<Angle(Fin(3, 5), Fin(4, 5)), Angle(Fin(4, 5), Fin(-3, 5))>>,
      <<Angle(Num(1), Num(0)), Angle(Num(-1), Num(0))>> }
Radii  == {Num(n) : n \in 0..MaxMag} \cup {Inf(1), NaN}
RowSet == {Row(rv, dir[1], dir[2]) : rv \in Radii, dir \in Directions}
\* the CLI floats: argparse's float accepts inf and nan
Floats == {Num(n) : n \in (-MaxMag)..MaxMag} \cup {Inf(1), Inf(-1), NaN}
\* an input of n samples on the equator: r = 1..n, theta = pi/2, phi = 0
PlainRows(n) == [p \in 1..n |-> Row(Num(p), Angle(Num(1), Num(0)), Angle(Num(0), Num(1)))]

Content(kind, ndim, cols, rows) ==
    [kind |-> kind, ndim |-> ndim, cols |-> cols, rows |-> rows]
File(exists, ext, content) == [exists |-> exists, ext |-> ext, content |-> content]
Args(fmt, tail, rs, mass, g, c) ==
    [format |-> fmt, tail |-> tail, rs |-> rs, mass |-> mass, G |-> g, c |-> c]

NoLocals == [file_format |-> "none", N |-> 0, x |-> <<>>, y |-> <<>>, z |-> <<>>,
             lim |-> None, rs |-> None, show_horizon |-> FALSE]
NoDoc == [written |-> FALSE, Nmax |-> 0, tail |-> 0, horizon_checked |-> FALSE,
          data |-> [N |-> 0, lim |-> None, rs |-> None, show_horizon |-> FALSE]]

MainIdleViewer ==
    /\ D = [N |-> 0, show_horizon |-> FALSE] /\ traces = <<>> /\ slider = 0
    /\ tailInput = 0 /\ horizonToggle = FALSE /\ playBtn = "" /\ timer = null
    /\ intervals = {} /\ nextTimer = 1 /\ event = "none"
MainIdleAnim ==
    /\ L = 0 /\ t = 0 /\ apc = "idle" /\ iter = 0 /\ drawn = {} /\ quitPending = FALSE

\* the inputs: file and format handling crossed with the horizon options
InputsControl ==
    \E exists \in BOOLEAN, fmt \in {"none", "npy", "csv"},
       ext \in {".npy", ".csv", ".txt"}, n \in 0..MaxRows, cols \in 3..5,
       shape \in {<<"npy", 1>>, <<"npy", 2>>, <<"npy", 3>>, <<"csv", 2>>, <<"text", 2>>},
       rs \in {None, Num(1)}, mg \in {None, Num(1)}, c \in {None, Num(0), Num(1)},
       w \in BOOLEAN :
        /\ infile = File(exists, ext, Content(shape[1], shape[2], cols, PlainRows(n)))
        /\ args = Args(fmt, 800, rs, mg, mg, c)
        /\ writable = w
\* the inputs: every combination of --rs, --mass, --G, --c on a good file
InputsHorizon ==
    \E rs \in Floats \cup {None}, mass \in Floats \cup {None},
       g \in Floats \cup {None}, c \in Floats \cup {None} :
        /\ infile = File(TRUE, ".csv", Content("csv", 2, 4, PlainRows(2)))
        /\ args = Args("none", 800, rs, mass, g, c)
        /\ writable = TRUE
\* the inputs: every trajectory of up to MaxRows samples over RowSet
InputsTrajectory ==
    \E n \in 0..MaxRows :
      \E rows \in [1..n -> RowSet] :
        /\ infile = File(TRUE, ".npy", Content("npy", 2, 4, rows))
        /\ args = Args("none", 800, None, None, None, None)
        /\ writable = TRUE
\* the inputs: --tail requests around and far outside 0..N-1
InputsTail ==
    \E n \in 2..MaxRows :
      \E tail \in ((-MaxTail)..MaxTail) \cup {-5, n + 100} :
        /\ infile = File(TRUE, ".csv", Content("csv", 2, 5, PlainRows(n)))
        /\ args = Args("csv", tail, None, None, None, None)
        /\ writable = TRUE

InitMain ==
    /\ \/ InputsControl
       \/ InputsHorizon
       \/ InputsTrajectory
       \/ InputsTail
    /\ mpc = "start"
    /\ loc = NoLocals
    /\ exitCode = null
    /\ stderr = ""
    /\ stdout = ""
    /\ html = NoDoc
    /\ MainIdleViewer
    /\ MainIdleAnim

\* sys.exit(1) after a message on stderr, or an uncaught exception
Exit1(msg) ==
    /\ mpc' = "exited"
    /\ exitCode' = 1
    /\ stderr' = msg
    /\ UNCHANGED <<loc, stdout, html>>

\* in_path.exists() and the format inference
LocateInput ==
    /\ mpc = "start"
    /\ IF ~infile.exists
       THEN Exit1("ERROR: File not found")
       ELSE IF InferFormat(args.format, infile.ext) = "unknown"
            THEN Exit1("ERROR: Could not infer format from extension")
            ELSE /\ loc' = [loc EXCEPT !.file_format = InferFormat(args.format, infile.ext)]
                 /\ mpc' = "load"
                 /\ UNCHANGED <<exitCode, stderr, stdout, html>>
    /\ UNCHANGED <<args, infile, writable, viewerVars, animVars>>

\* load_trajectory, spherical_to_cartesian, N = len(x) and the N < 2 check
LoadAndTransform ==
    /\ mpc = "load"
    /\ LET traj == load_trajectory(infile.content, loc.file_format)
           xyz  == spherical_to_cartesian(traj.rows)
       IN  IF traj.raised
           THEN Exit1("Traceback: ValueError")
           ELSE IF Len(xyz.x) < 2
                THEN Exit1("ERROR: Need at least 2 trajectory samples.")
                ELSE /\ loc' = [loc EXCEPT !.x = xyz.x, !.y = xyz.y, !.z = xyz.z,
                                           !.N = Len(xyz.x)]
                     /\ mpc' = "assemble"
                     /\ UNCHANGED <<exitCode, stderr, stdout, html>>
    /\ UNCHANGED <<args, infile, writable, viewerVars, animVars>>

\* lim, rs = compute_rs(args), show_horizon
AssembleView ==
    /\ mpc = "assemble"
    /\ LET res == compute_rs(args)
       IN  IF res.raised
           THEN Exit1("Traceback: ZeroDivisionError")
           ELSE /\ loc' = [loc EXCEPT !.lim = AxisLimit(loc.x, loc.y, loc.z),
                                      !.rs = res.rs,
                                      !.show_horizon = ShowHorizon(res.rs)]
                /\ mpc' = "emit"
                /\ UNCHANGED <<exitCode, stderr, stdout, html>>
    /\ UNCHANGED <<args, infile, writable, viewerVars, animVars>>

\* data, HTML_TEMPLATE.format(...), write_text, print; main returns (status 0)
EmitDocument ==
    /\ mpc = "emit"
    /\ IF ~writable
       THEN Exit1("Traceback: OSError")
       ELSE /\ html' = [written |-> TRUE,
                        Nmax |-> loc.N - 1,
                        tail |-> TailClamp(args.tail, loc.N),
                        horizon_checked |-> loc.show_horizon,
                        data |-> [N |-> loc.N, lim |-> loc.lim,
                                  rs |-> IF loc.rs # None THEN loc.rs ELSE Num(0),
                                  show_horizon |-> loc.show_horizon]]
            /\ stdout' = "Wrote output path"
            /\ mpc' = "exited"
            /\ exitCode' = 0
            /\ UNCHANGED <<loc, stderr>>
    /\ UNCHANGED <<args, infile, writable, viewerVars, animVars>>

NextMain ==
    \/ LocateInput
    \/ LoadAndTransform
    \/ AssembleView
    \/ EmitDocument

SpecMain == InitMain /\ [][NextMain]_vars

(***************************************************************************)
(* Claims about main()                                                     *)
(***************************************************************************)
Exited     == mpc = "exited"
Succeeded  == mpc = "exited" /\ exitCode = 0
samples    == infile.content.rows
Missing    == ~infile.exists
BadSuffix  == args.format = "none" /\ infile.ext \notin {".npy", ".csv"}
FewSamples == Len(samples) < 2
Failed(msg) ==
    exitCode = 1 /\ stderr = msg /\ ~html.written /\ stdout = ""
Wrote ==
    exitCode = 0 /\ html.written /\ stdout = "Wrote output path" /\ stderr = ""

\* C6 as stated: exit 1 with a stderr message and no document exactly for a
\* missing file, an unrecognised suffix without --format, or fewer than 2
\* samples; exit 0 with the document written and the path printed otherwise.
C6_ExitOneOnlyInThreeCases ==
    Exited =>
        IF Missing \/ BadSuffix \/ FewSamples
        THEN exitCode = 1 /\ stderr # "" /\ ~html.written
        ELSE Wrote

\* the format the loader is called with, when the suffix check passes
UsedFormat ==
    IF args.format # "none" THEN args.format
    ELSE IF infile.ext = ".npy" THEN "npy" ELSE "csv"
\* the loader raises: content of the other kind, an array that is not 2-D
\* (a csv table of fewer than 2 rows loads as 1-D), or fewer than 4 columns
LoaderRejects ==
    \/ infile.content.kind # UsedFormat
    \/ (UsedFormat = "npy" /\ infile.content.ndim # 2)
    \/ (UsedFormat = "csv" /\ Len(samples) < 2)
    \/ infile.content.cols < 4
\* --rs absent, --mass, --G, --c all given, and c = 0
DividesByZero ==
    /\ args.rs = None /\ args.mass # None /\ args.G # None /\ args.c # None
    /\ args.c.k = "fin" /\ args.c.n = 0

\* C6 amended: the three reported errors exit 1 in that order; an exception
\* of the loader, of compute_rs (c = 0) or of the write also ends the run
\* with status 1, a traceback and no document; every other run exits 0
\* with the document written and the path printed.
C6_ExitCodes ==
    Exited =>
        IF Missing THEN Failed("ERROR: File not found")
        ELSE IF BadSuffix THEN Failed("ERROR: Could not infer format from extension")
        ELSE IF LoaderRejects THEN Failed("Traceback: ValueError")
        ELSE IF FewSamples THEN Failed("ERROR: Need at least 2 trajectory samples.")
        ELSE IF DividesByZero THEN Failed("Traceback: ZeroDivisionError")
        ELSE IF ~writable THEN Failed("Traceback: OSError")
        ELSE Wrote
C6_Witness ==
    /\ Exited /\ exitCode = 1 /\ stderr = "Traceback: ValueError"
    /\ infile.exists /\ infile.ext = ".csv" /\ infile.content.kind = "csv"
    /\ Len(samples) >= 2 /\ infile.content.cols = 3 /\ ~html.written

\* C7: the resolved radius is --rs when given, else 2GM/c^2 when mass, G and
\* c are all given, else unset; show_horizon and the checkbox are true iff
\* the radius is set, finite and > 0.
AllGiven == args.mass # None /\ args.G # None /\ args.c # None
SameValue(a, b) == a = b \/ FEq(a, b)
C7_HorizonRadiusAndFlag ==
    Succeeded =>
        /\ (args.rs # None => loc.rs = args.rs)
        /\ (args.rs = None /\ ~AllGiven => loc.rs = None)
        /\ (args.rs = None /\ AllGiven => loc.rs # None)
        /\ (args.rs = None /\ AllGiven /\ IsFinite(args.mass) /\ IsFinite(args.G)
              /\ IsFinite(args.c)
              => SameValue(loc.rs, Fin(2 * args.G.n * args.mass.n, args.c.n * args.c.n)))
        /\ html.data.show_horizon = (loc.rs.k = "fin" /\ loc.rs.n > 0)
        /\ html.horizon_checked = html.data.show_horizon
        /\ (args.rs = Num(0) => ~html.data.show_horizon)
C7_Witness ==
    /\ Succeeded
    /\ args.rs = None /\ args.mass = Num(1) /\ args.G = Num(1) /\ args.c = Num(1)
    /\ FEq(loc.rs, Num(2)) /\ html.data.show_horizon /\ html.horizon_checked

\* the coordinates the document carries
coords    == loc.x \o loc.y \o loc.z
AllFinite == \A p \in 1..Len(coords) : coords[p].k = "fin"
\* |v| <= lim for finite v and lim, by cross-multiplication
AbsAtMost(v, lim) ==
    /\ lim.k = "fin"
    /\ v.k = "fin"
    /\ AbsInt(v.n) * lim.d <= lim.n * v.d
\* lim = 1.05 * |v|
IsScaled(lim, v) == lim.k = "fin" /\ v.k = "fin" /\ 100 * lim.n * v.d = 105 * AbsInt(v.n) * lim.d
IsLargest(v) == \A q \in 1..Len(coords) : AbsAtMost(coords[q], FAbs(v))

\* C8 as stated: lim is at least every |coordinate|, is 1.05 times the
\* largest when that is finite and positive, and is 1.0 when all are zero.
C8_LimitBoundsEveryCoordinate ==
    Succeeded =>
        /\ \A p \in 1..Len(coords) : ~IsNaN(coords[p]) => AbsAtMost(coords[p], html.data.lim)
        /\ \A p \in 1..Len(coords) :
             (AllFinite /\ IsLargest(coords[p]) /\ ~IsZero(coords[p]))
                 => IsScaled(html.data.lim, coords[p])
        /\ ((\A p \in 1..Len(coords) : IsZero(coords[p])) => FEq(html.data.lim, Num(1)))
\* C8 amended: when every coordinate is finite, lim is at least every
\* |coordinate|, 1.05 times the largest when that is positive and 1.0 when
\* all are zero; when some coordinate is inf or nan, lim is 1.0.
C8_AxisLimit ==
    Succeeded =>
        IF AllFinite
        THEN /\ \A p \in 1..Len(coords) : AbsAtMost(coords[p], html.data.lim)
             /\ \A p \in 1..Len(coords) :
                  (IsLargest(coords[p]) /\ ~IsZero(coords[p]))
                      => IsScaled(html.data.lim, coords[p])
             /\ ((\A p \in 1..Len(coords) : IsZero(coords[p]))
                      => html.data.lim = Num(1))
        ELSE html.data.lim = Num(1)
C8_Witness ==
    /\ Succeeded /\ html.data.lim = Num(1)
    /\ \E p \in 1..Len(coords) : coords[p] = Inf(1)
    /\ \E p \in 1..Len(coords) : coords[p].k = "fin" /\ coords[p].n < 0

\* C9: the tail slider starts at --tail clamped into 0..N-1, and the sliders
\* run over 0..N-1.
C9_TailClamped ==
    Succeeded =>
        /\ html.Nmax = Len(samples) - 1
        /\ html.tail \in 0..html.Nmax
        /\ (args.tail < 0 => html.tail = 0)
        /\ (args.tail > Len(samples) - 1 => html.tail = Len(samples) - 1)
        /\ (args.tail \in 0..(Len(samples) - 1) => html.tail = args.tail)
C9_Witness ==
    /\ Succeeded /\ args.tail = -5 /\ html.tail = 0 /\ html.Nmax >= 2

(***************************************************************************)
(* pygameSkripta.py: the script from line 34 on                            *)
(***************************************************************************)
Stride == 1000     \* t += 1000

AnimIdleViewer ==
    /\ D = [N |-> 0, show_horizon |-> FALSE] /\ traces = <<>> /\ slider = 0
    /\ tailInput = 0 /\ horizonToggle = FALSE /\ playBtn = "" /\ timer = null
    /\ intervals = {} /\ nextTimer = 1 /\ event = "none"
AnimIdleMain ==
    /\ args = <<>> /\ infile = <<>> /\ writable = FALSE /\ mpc = "idle"
    /\ loc = <<>> /\ exitCode = null /\ stderr = "" /\ stdout = "" /\ html = <<>>

\* x, y = KartezijskeKoordinate(precnik, ugao): arrays of some length L
InitAnim ==
    /\ L \in 0..MaxLen
    /\ t = 0
    /\ apc = "print"
    /\ iter = 0
    /\ drawn = {}
    /\ quitPending = FALSE
    /\ AnimIdleViewer
    /\ AnimIdleMain

\* print(x[0], y[0]); t = 0
PrintFirst ==
    /\ apc = "print"
    /\ apc' = IF 0 >= L THEN "fault" ELSE "loop"
    /\ t' = 0
    /\ UNCHANGED <<L, iter, drawn, quitPending, viewerVars, mainVars>>

\* the user closes the window: a QUIT event is queued
CloseWindow ==
    /\ apc \in {"print", "loop", "draw", "tick"}
    /\ ~quitPending
    /\ quitPending' = TRUE
    /\ UNCHANGED <<L, t, apc, iter, drawn, viewerVars, mainVars>>

FrameStepByOne(f) == f + 1
\* t += 1000
FrameStep(f) == f + Stride

\* while True: t += 1000; for event in pygame.event.get(): QUIT -> sys.exit()
BeginIteration ==
    /\ apc = "loop"
    /\ t' = FrameStep(t)
    /\ iter' = iter + 1
    /\ apc' = IF quitPending THEN "quit" ELSE "draw"
    /\ quitPending' = FALSE
    /\ UNCHANGED <<L, drawn, viewerVars, mainVars>>

\* window.fill; pygame.draw.circle(..., (x[t], y[t]), 10); ...; display.flip()
DrawFrame ==
    /\ apc = "draw"
    /\ IF t >= L
       THEN apc' = "fault" /\ UNCHANGED drawn        \* IndexError, uncaught
       ELSE apc' = "tick" /\ drawn' = drawn \cup {t}
    /\ UNCHANGED <<L, t, iter, quitPending, viewerVars, mainVars>>

\* pygame.time.Clock().tick(60)
ClockTick ==
    /\ apc = "tick"
    /\ apc' = "loop"
    /\ UNCHANGED <<L, t, iter, drawn, quitPending, viewerVars, mainVars>>

\* the steps the interpreter takes
ScriptStep == PrintFirst \/ BeginIteration \/ DrawFrame \/ ClockTick

NextAnim ==
    \/ PrintFirst
    \/ CloseWindow
    \/ BeginIteration
    \/ DrawFrame
    \/ ClockTick

SpecAnim == InitAnim /\ [][NextAnim]_vars
\* the interpreter keeps running the script while it can
SpecAnimFair == SpecAnim /\ WF_vars(ScriptStep)

(***************************************************************************)
(* Claims about the frame loop                                             *)
(***************************************************************************)
\* iteration k has t = 1000*k; only the samples 1000*k (k >= 1) are drawn
StrideDraws ==
    /\ t = Stride * iter
    /\ \A f \in drawn : \E k \in 1..iter : f = Stride * k
    /\ 0 \notin drawn
    /\ (apc = "tick" => t \in drawn)
    /\ apc \in {"print", "loop", "draw", "tick", "quit", "fault"}
\* the fault of iteration iter: the first one whose frame index is >= L
FaultInLoop ==
    /\ iter >= 1 /\ t = Stride * iter /\ t >= L /\ t - Stride < L
    /\ drawn = {Stride * k : k \in 1..(iter - 1)}
\* the run ends by quit or fault, and ends by the fault when no QUIT comes
EndsByQuitOrFault ==
    /\ <>(apc \in {"quit", "fault"})
    /\ ([](~quitPending) => <>(apc = "fault"))

\* C10 as stated: the counter starts at 0 and grows by 1000 before each
\* draw, iteration k draws sample 1000*k, sample 0 is never drawn, and the
\* run ends only by a quit event or by the out-of-bounds fault of the first
\* iteration whose frame index is >= L, which every run without a quit
\* event reaches.
C10_FaultAlwaysInsideLoop ==
    /\ [](StrideDraws /\ (apc = "fault" => FaultInLoop))
    /\ EndsByQuitOrFault
\* C10 amended: as stated for L >= 1; for L = 0 the out-of-bounds fault is
\* raised by print(x[0], y[0]) before the loop is entered.
C10_FrameLoop ==
    /\ [](StrideDraws /\
          (apc = "fault" =>
               IF L = 0 THEN iter = 0 /\ t = 0 /\ drawn = {} ELSE FaultInLoop))
    /\ EndsByQuitOrFault
C10_Witness ==
    /\ apc = "fault" /\ iter = 3 /\ drawn = {Stride, 2 * Stride} /\ t >= L

====
